---- MODULE Spec2Model ----
(***************************************************************************)
(* WattGauge / EnergyGauge (src/WattGauge.h) as a state machine.           *)
(*                                                                         *)
(* The arithmetic is that of the firmware target (ESP8266): unsigned long  *)
(* and int are 32 bits wide.  Unsigned subtraction and multiplication are  *)
(* taken modulo 2^32 and a value stored into an int is reduced to the      *)
(* signed 32-bit range.                                                    *)
(*                                                                         *)
(* The specifications share the definitions:                               *)
(*   SpecWG    a stand-alone WattGauge (variable wg), as _test_wattgauge;  *)
(*   Spec      an EnergyGauge (variables pos, neg, wprev), as              *)
(*             _test_energygauge and _test_energygauge_around_zero;        *)
(*   SpecRead  an EnergyGauge whose caller also reads it (variable obs),   *)
(*             as the TEST and HAS_CHANGE steps of the same tests;         *)
(*   SpecSpike a stand-alone WattGauge under a load that spikes;           *)
(*   SpecWide  an EnergyGauge fed arbitrary timestamps and values, beside  *)
(*             a second one fed the same calls on a shifted clock          *)
(*             (variables twin, fault).                                    *)
(***************************************************************************)
EXTENDS Integers, Sequences, FiniteSets, TLC

VARIABLES
    now,    \* the caller's millisecond clock: the time_ms of the latest feed
    wg,     \* the stand-alone WattGauge
    pos,    \* EnergyGauge::_positive
    neg,    \* EnergyGauge::_negative
    wprev,  \* EnergyGauge::_wprev
    hist,   \* history of the calls made on each gauge (not program state)
    obs,    \* what the caller's reads returned (not program state)
    twin,   \* a second EnergyGauge, fed the same calls on a shifted clock
    fault   \* an operation divided by zero

vars == <<now, wg, pos, neg, wprev, hist, obs, twin, fault>>

\* the variables only some specifications use
aux == <<obs, twin, fault>>

----------------------------------------------------------------------------
(* Bounds of the model *)

\* the clock never passes MaxTime
MaxTime == 400000
\* at most MaxFeeds feeds are made on a stand-alone gauge
MaxFeeds == 4
\* at most MaxFeedsEG feeds are made on each direction of an EnergyGauge
MaxFeedsEG == 2

\* the time that passes before a feed
Deltas == {0, 5000, 20000, 31000, 300001}
DeltasEG == {0, 31000}
\* the number of units (Wh) the meter's counter advanced before a feed
Incs == {0, 1, 6}
IncsEG == {0, 6}
\* the meter reading at the first feed
FirstWh == {100}
\* what uninitialised memory may hold
Garbage == {0, 20000}

----------------------------------------------------------------------------
(* Machine arithmetic *)
(* An unsigned long (32 bits) is held as the int with the same bit pattern:*)
(* the value u itself when u <= INT_MAX and u - 2^32 otherwise.  A         *)
(* conversion between unsigned and int keeps the bit pattern, so it keeps  *)
(* the held number; what differs between the two types is the comparison   *)
(* (ULess against <), the division and the negation.  The operators work   *)
(* on 16-bit halves so that no intermediate result leaves the int range.   *)

INT_MAX == 2147483647
HALF == 65536

Lo16(a) == a % HALF
Hi16(a) == (a \div HALF) % HALF
Join(hi, lo) ==
    IF hi >= HALF \div 2 THEN (hi - HALF) * HALF + lo ELSE hi * HALF + lo

\* unsigned a + b, modulo 2^32
UAdd(a, b) ==
    LET lo == Lo16(a) + Lo16(b)
        hi == Hi16(a) + Hi16(b) + (lo \div HALF)
    IN  Join(hi % HALF, lo % HALF)

\* unsigned a - b, modulo 2^32
USub(a, b) ==
    LET lo == Lo16(a) - Lo16(b)
        hi == Hi16(a) - Hi16(b) + (lo \div HALF)
    IN  Join(hi % HALF, lo % HALF)

\* unsigned a * k, modulo 2^32, for a multiplier 0 <= k < 2^15
UMul(a, k) ==
    LET lo == Lo16(a) * k
        hi == Hi16(a) * k + (lo \div HALF)
    IN  Join(hi % HALF, lo % HALF)

\* unsigned a < b
ULess(a, b) == IF (a >= 0) = (b >= 0) THEN a < b ELSE b < 0
\* unsigned a >= b
UGeq(a, b) == ~ULess(a, b)

\* unsigned a / b, b # 0
UDiv(a, b) ==
    IF b < 0 THEN (IF UGeq(a, b) THEN 1 ELSE 0)
    ELSE IF a >= 0 THEN a \div b
    ELSE IF b = 1 THEN a
    ELSE LET half == ((a \div 2) + INT_MAX) + 1     \* a >> 1
             hq == half \div b
             hr == half % b
         IN  2 * hq + (IF hr >= b - hr - (a % 2) THEN 1 ELSE 0)

\* the conversions between unsigned (long) and int keep the bit pattern
ToInt(u) == u
ToUnsigned(i) == i

Slots(a, b, c) == (0 :> a) @@ (1 :> b) @@ (2 :> c)

----------------------------------------------------------------------------
(* class WattGauge *)

\* a variant of the constructor that leaves _watt uninitialised as well
WattGauge_watt_uninitialised(gt0, gt1, gt2, gp0, gp1, gp2, gl) ==
    [t |-> Slots(gt0, gt1, gt2), p |-> Slots(gp0, gp1, gp2), tlast |-> gl,
     watt |-> gl, data_valid |-> FALSE]

\* the object right after WattGauge(): _watt and _data_valid are set, the
\* other members are left uninitialised
WattGauge(gt0, gt1, gt2, gp0, gp1, gp2, gl) ==
    [t |-> Slots(gt0, gt1, gt2), p |-> Slots(gp0, gp1, gp2), tlast |-> gl,
     watt |-> 0, data_valid |-> FALSE]

\* a variant that takes a latest timestamp below the window start for no
\* elapsed time
tdelta_clamped(g) ==
    IF ULess(g.t[2], g.t[0]) THEN 0 ELSE USub(g.t[2], g.t[0])

tdelta(g) == USub(g.t[2], g.t[0])
pdelta(g) == USub(g.p[2], g.p[0])

\* a variant of the gate without the clause for a long window
there_are_enough_values_no_long_window(g) ==
    \/ (UGeq(tdelta(g), 20000) /\ UGeq(pdelta(g), 6))
    \/ (UGeq(tdelta(g), 50000) /\ UGeq(pdelta(g), 2))

\* a variant of the gate whose first clause asks for the units only
there_are_enough_values_units_only(g) ==
    \/ UGeq(pdelta(g), 6)
    \/ (UGeq(tdelta(g), 50000) /\ UGeq(pdelta(g), 2))
    \/ UGeq(tdelta(g), 300000)

there_are_enough_values(g) ==
    \/ (UGeq(tdelta(g), 20000) /\ UGeq(pdelta(g), 6))
    \/ (UGeq(tdelta(g), 50000) /\ UGeq(pdelta(g), 2))
    \/ UGeq(tdelta(g), 300000)

\* a variant that divides as int instead of unsigned long
recalculate_signed(g) ==
    IF there_are_enough_values(g)
    THEN LET product == ToInt(UMul(UMul(pdelta(g), 1000), 3600))
             span == ToInt(tdelta(g))
         IN  [g EXCEPT !.watt =
                 IF span <= 0 THEN 0
                 ELSE IF product < 0 THEN 0 - ((0 - (product + 1)) \div span)
                 ELSE product \div span]
    ELSE IF ULess(300000, USub(g.tlast, g.t[0]))
    THEN [g EXCEPT !.watt = 0]
    ELSE g

\* a variant that drops the estimate whenever the gate fails
recalculate_or_zero(g) ==
    IF there_are_enough_values(g)
    THEN [g EXCEPT !.watt =
              ToInt(UDiv(UMul(UMul(pdelta(g), 1000), 3600), tdelta(g)))]
    ELSE [g EXCEPT !.watt = 0]

recalculate_if_sensible(g) ==
    IF there_are_enough_values(g)
    THEN [g EXCEPT !.watt =
              ToInt(UDiv(UMul(UMul(pdelta(g), 1000), 3600), tdelta(g)))]
    ELSE IF ULess(300000, USub(g.tlast, g.t[0]))
    THEN [g EXCEPT !.watt = 0]
    ELSE g

get_active_energy_total(g) == g.p[2]

\* WattGauge::get_instantaneous_power returns unsigned
get_instantaneous_power(g) == ToUnsigned(g.watt)

interval_since_last_change(g) == USub(g.tlast, g.t[2])

\* a variant that also drops the estimate when it slides
reset_clears_estimate(g) ==
    IF there_are_enough_values(g)
    THEN [g EXCEPT !.t = Slots(g.t[1], g.t[2], g.t[2]),
                   !.p = Slots(g.p[1], g.p[2], g.p[2]),
                   !.watt = 0]
    ELSE g

\* a variant that slides without asking the gate
reset_ungated(g) ==
    [g EXCEPT !.t = Slots(g.t[1], g.t[2], g.t[2]),
              !.p = Slots(g.p[1], g.p[2], g.p[2])]

\* a variant that starts the window at the latest sample and keeps slot 1
reset_start_from_latest(g) ==
    IF there_are_enough_values(g)
    THEN [g EXCEPT !.t = Slots(g.t[2], g.t[1], g.t[2]),
                   !.p = Slots(g.p[2], g.p[1], g.p[2])]
    ELSE g

\* a variant that restarts the whole window at the latest sample
reset_restart(g) ==
    IF there_are_enough_values(g)
    THEN [g EXCEPT !.t = Slots(g.t[2], g.t[2], g.t[2]),
                   !.p = Slots(g.p[2], g.p[2], g.p[2])]
    ELSE g

reset(g) ==
    IF there_are_enough_values(g)
    THEN [g EXCEPT !.t = Slots(g.t[1], g.t[2], g.t[2]),
                   !.p = Slots(g.p[1], g.p[2], g.p[2])]
    ELSE g

\* a variant that takes the hypothetical rate even when it is higher
stall_decay_overwrite(g) ==
    IF ULess(30000, USub(g.tlast, g.t[2]))
    THEN [g EXCEPT !.watt = ToInt(UDiv(3600000, USub(g.tlast, g.t[2])))]
    ELSE g

\* the stall decay of an unchanged-counter feed; g.tlast is already time_ms
stall_decay(g) ==
    IF ULess(30000, USub(g.tlast, g.t[2]))
    THEN LET possible_watt == ToInt(UDiv(3600000, USub(g.tlast, g.t[2])))
         IN  IF possible_watt < g.watt
             THEN [g EXCEPT !.watt = possible_watt]
             ELSE g
    ELSE g

\* a variant whose first-change branch forgets slot 2
shift_window_slot1_only(g, time_ms, current_wh) ==
    IF g.t[0] = g.t[1]
    THEN [g EXCEPT !.t = Slots(g.t[0], time_ms, g.t[2]),
                   !.p = Slots(g.p[0], current_wh, g.p[2])]
    ELSE [g EXCEPT !.t = Slots(g.t[0], g.t[2], time_ms),
                   !.p = Slots(g.p[0], g.p[2], current_wh)]

\* a variant whose first-change branch is taken whenever slots 1 and 2 hold
\* the same time
shift_window_first_change_repeats(g, time_ms, current_wh) ==
    IF g.t[1] = g.t[2]
    THEN [g EXCEPT !.t = Slots(g.t[0], time_ms, time_ms),
                   !.p = Slots(g.p[0], current_wh, current_wh)]
    ELSE [g EXCEPT !.t = Slots(g.t[0], g.t[2], time_ms),
                   !.p = Slots(g.p[0], g.p[2], current_wh)]

\* a variant without the first-change branch
shift_window_always_moves(g, time_ms, current_wh) ==
    [g EXCEPT !.t = Slots(g.t[0], g.t[2], time_ms),
              !.p = Slots(g.p[0], g.p[2], current_wh)]

\* the window shift of a counter-advancing feed
shift_window(g, time_ms, current_wh) ==
    IF g.t[0] = g.t[1]
    THEN [g EXCEPT !.t = Slots(g.t[0], time_ms, time_ms),
                   !.p = Slots(g.p[0], current_wh, current_wh)]
    ELSE [g EXCEPT !.t = Slots(g.t[0], g.t[2], time_ms),
                   !.p = Slots(g.p[0], g.p[2], current_wh)]

\* a variant that asks for a wholly flat first segment
spike_condition_flat_only(g) ==
    /\ ULess(60000, USub(g.t[1], g.t[0]))
    /\ ~ULess(0, USub(g.p[1], g.p[0]))
    /\ ULess(USub(g.t[2], g.t[1]), 15000)

\* the condition of the forced reset
spike_condition(g) ==
    /\ ULess(60000, USub(g.t[1], g.t[0]))
    /\ ~ULess(1, USub(g.p[1], g.p[0]))
    /\ ULess(USub(g.t[2], g.t[1]), 15000)

\* a variant whose forced reset keeps the window start and drops slot 1
spike_reset_keeps_start(g) ==
    IF spike_condition(g) /\ there_are_enough_values(g)
    THEN [g EXCEPT !.t = Slots(g.t[0], g.t[2], g.t[2]),
                   !.p = Slots(g.p[0], g.p[2], g.p[2])]
    ELSE g

\* a variant whose forced reset slides without asking the gate
spike_reset_ungated(g) == IF spike_condition(g) THEN reset_ungated(g) ELSE g

spike_reset(g) == IF spike_condition(g) THEN reset(g) ELSE g

set_active_energy_total(g, time_ms, current_wh) ==
    IF ~g.data_valid
    THEN [t |-> Slots(time_ms, time_ms, time_ms),
          p |-> Slots(current_wh, current_wh, current_wh),
          tlast |-> time_ms, watt |-> 0, data_valid |-> TRUE]
    ELSE IF current_wh = g.p[2]
    THEN stall_decay([g EXCEPT !.tlast = time_ms])
    ELSE recalculate_if_sensible(
             spike_reset(
                 shift_window([g EXCEPT !.tlast = time_ms],
                              time_ms, current_wh)))

----------------------------------------------------------------------------
(* class EnergyGauge *)

get_positive_active_energy_total == get_active_energy_total(pos)
get_negative_active_energy_total == get_active_energy_total(neg)

\* a variant that gives equal intervals to the positive direction
eg_power_tie_positive(p, n) ==
    IF ~ULess(interval_since_last_change(n), interval_since_last_change(p))
    THEN ToInt(get_instantaneous_power(p))
    ELSE ToInt(USub(0, get_instantaneous_power(n)))

\* EnergyGauge::get_instantaneous_power returns int; the negative branch
\* negates an unsigned
eg_power(p, n) ==
    IF ULess(interval_since_last_change(p), interval_since_last_change(n))
    THEN ToInt(get_instantaneous_power(p))
    ELSE ToInt(USub(0, get_instantaneous_power(n)))

eg_get_instantaneous_power == eg_power(pos, neg)

(* The divisions a call executes: the set of the divisors it divides by   *)
(* on the path the call takes.                                             *)

\* _recalculate_if_sensible: ... / _tdelta()
recalculate_divisors(g) ==
    IF there_are_enough_values(g) THEN {tdelta(g)} ELSE {}

\* the stall decay: ... / (_tlast - _t[2])
stall_decay_divisors(g) ==
    IF ULess(30000, USub(g.tlast, g.t[2]))
    THEN {USub(g.tlast, g.t[2])}
    ELSE {}

set_active_energy_total_divisors(g, time_ms, current_wh) ==
    IF ~g.data_valid THEN {}
    ELSE IF current_wh = g.p[2]
    THEN stall_decay_divisors([g EXCEPT !.tlast = time_ms])
    ELSE recalculate_divisors(
             spike_reset(
                 shift_window([g EXCEPT !.tlast = time_ms],
                              time_ms, current_wh)))

\* _recalculate_if_sensible takes its else-if branch and assigns _watt = 0
recalculate_forces_zero(g) ==
    /\ ~there_are_enough_values(g)
    /\ ULess(300000, USub(g.tlast, g.t[0]))

\* a call of set_active_energy_total that reaches _recalculate_if_sensible
\* and assigns _watt = 0 there
set_active_energy_total_forces_zero(g, time_ms, current_wh) ==
    /\ g.data_valid
    /\ current_wh # g.p[2]
    /\ recalculate_forces_zero(
           spike_reset(
               shift_window([g EXCEPT !.tlast = time_ms],
                            time_ms, current_wh)))

\* has_significant_change: (float)watt / (float)_wprev
has_significant_change_divisors(watt, w_prev) ==
    IF (w_prev < 0 /\ watt > 0) \/ (watt < 0 /\ w_prev > 0) THEN {}
    ELSE IF w_prev = 0 /\ (0 - 20 < watt /\ watt < 20) THEN {}
    ELSE IF w_prev = 0 THEN {}
    ELSE {w_prev}

(* The float arithmetic of has_significant_change.  (float)i has a 24-bit  *)
(* significand: its magnitude is m * 2^e with m <= 2^24, rounded to        *)
(* nearest, ties to even.  The magnitude is computed from -|i|, which is   *)
(* an int also for the most negative i.                                    *)

FLT_MANT == 16777216

NegMag(i) == IF i > 0 THEN 0 - i ELSE i

\* -floor(|n| / d) for n <= 0
NegFloorMag(n, d) == (n + d - 1) \div d

FloatOf(i) ==
    LET n == NegMag(i)
        e == CHOOSE x \in 0..8 :
                 /\ NegFloorMag(n, 2^x) > 0 - FLT_MANT
                 /\ \A y \in 0..(x - 1) : NegFloorMag(n, 2^y) <= 0 - FLT_MANT
        d == 2^e
        fl == 0 - NegFloorMag(n, d)
        rem == (d - (n % d)) % d
        up == (2 * rem > d) \/ (2 * rem = d /\ fl % 2 = 1)
    IN  [m |-> IF up THEN fl + 1 ELSE fl, e |-> e]

\* a/b <= c/d for a, c >= 0 and b, d > 0, without leaving the int range
RECURSIVE FracLeq(_, _, _, _)
FracLeq(a, b, c, d) ==
    LET qa == a \div b
        qc == c \div d
        ra == a % b
        rc == c % d
    IN  IF qa # qc THEN qa < qc
        ELSE IF ra = 0 THEN TRUE
        ELSE IF rc = 0 THEN FALSE
        ELSE FracLeq(d, rc, b, ra)

(* float factor = (float)watt / (float)_wprev is the quotient rounded to   *)
(* a float; 0.6 and 1.6 are doubles, and neither is a float.  The least    *)
(* float above 0.6 is 10066330 * 2^-24 and the greatest float below 1.6 is *)
(* 13421772 * 2^-23, so 0.6 < factor && factor < 1.6 holds exactly when    *)
(* the quotient q lies between the two rounding midpoints:                 *)
(*     20132659 / 2^25 <= q <= 26843545 / 2^24                             *)
(* (both midpoints round to the even neighbour, which is inside).          *)
BAND_LO_NUM == 20132659
BAND_LO_DEN == 33554432
BAND_HI_NUM == 26843545
BAND_HI_DEN == 16777216

\* 0.6 < factor && factor < 1.6, for watt and w_prev # 0 of no opposite signs
factor_is_small(watt, w_prev) ==
    LET fw == FloatOf(watt)
        fp == FloatOf(w_prev)
        ediff == fw.e - fp.e
        num == IF ediff = 1 THEN 2 * fw.m ELSE fw.m
        den == IF ediff = 0 - 1 THEN 2 * fp.m ELSE fp.m
    IN  \* exponents two apart put the quotient above 2 or at most 1/2
        /\ ediff \in {0 - 1, 0, 1}
        /\ FracLeq(BAND_LO_NUM, BAND_LO_DEN, num, den)
        /\ FracLeq(num, den, BAND_HI_NUM, BAND_HI_DEN)

\* a variant with the band of the idle case reduced to the single value 0
has_significant_change_zero_only(watt, w_prev) ==
    IF (w_prev < 0 /\ watt > 0) \/ (watt < 0 /\ w_prev > 0) THEN TRUE
    ELSE IF w_prev = 0 /\ watt = 0 THEN FALSE
    ELSE IF w_prev = 0 THEN TRUE
    ELSE ~factor_is_small(watt, w_prev)

\* EnergyGauge::has_significant_change, for watt = get_instantaneous_power()
has_significant_change(watt, w_prev) ==
    IF (w_prev < 0 /\ watt > 0) \/ (watt < 0 /\ w_prev > 0) THEN TRUE
    ELSE IF w_prev = 0 /\ (0 - 20 < watt /\ watt < 20) THEN FALSE
    ELSE IF w_prev = 0 THEN TRUE
    ELSE ~factor_is_small(watt, w_prev)

eg_has_significant_change ==
    has_significant_change(eg_get_instantaneous_power, wprev)

----------------------------------------------------------------------------
(* History of the calls: what the caller did, kept beside the program state *)

Gauges == {"wg", "pos", "neg"}

\* feeds: the number of feeds; fed: the value of the latest feed; (chg, fed):
\* the latest feed that changed the value; (pchg, pfed): the one before it;
\* op: the latest call; since: the number of counter-advancing feeds made
\* after the latest feed whose forced reset slid the window (counted up to
\* 3), or -1 when no window slid by a forced reset is in use; adv: the
\* number of counter-advancing feeds made since construction or since the
\* latest reset, forced or not, that slid the window (counted up to 2);
\* since and adv are kept by SpecSpike only
NoHist ==
    [feeds |-> 0, fed |-> 0, chg |-> 0, pfed |-> 0, pchg |-> 0, op |-> "new",
     since |-> 0 - 1, adv |-> 0]

\* the history after feeding (time_ms, current_wh)
FedHist(h, time_ms, current_wh) ==
    IF h.feeds = 0
    THEN [feeds |-> 1, fed |-> current_wh, chg |-> time_ms,
          pfed |-> current_wh, pchg |-> time_ms, op |-> "first",
          since |-> h.since, adv |-> h.adv]
    ELSE IF current_wh = h.fed
    THEN [h EXCEPT !.feeds = @ + 1, !.op = "same"]
    ELSE [feeds |-> h.feeds + 1, fed |-> current_wh, chg |-> time_ms,
          pfed |-> h.fed, pchg |-> h.chg, op |-> "advance",
          since |-> h.since, adv |-> h.adv]

\* the history after feeding (time_ms, current_wh) to gauge g, with the
\* count of the counter-advancing feeds since the latest forced reset
ForcedHist(h, g, time_ms, current_wh) ==
    LET f == FedHist(h, time_ms, current_wh)
        sh == shift_window([g EXCEPT !.tlast = time_ms], time_ms, current_wh)
    IN  IF ~g.data_valid \/ current_wh = g.p[2] THEN f
        ELSE IF spike_condition(sh) /\ there_are_enough_values(sh)
        THEN [f EXCEPT !.since = 0, !.adv = 0]
        ELSE [f EXCEPT !.since = IF @ \in 0..2 THEN @ + 1 ELSE @,
                       !.adv = IF @ < 2 THEN @ + 1 ELSE @]

ResetHist(h, g) ==
    IF there_are_enough_values(g)
    THEN [h EXCEPT !.op = "slide", !.since = 0 - 1, !.adv = 0]
    ELSE [h EXCEPT !.op = "noop"]

\* nothing was read yet, or a feed or reset came after the latest read
NoObs ==
    [valid |-> FALSE, power |-> 0, significant |-> FALSE,
     totals |-> <<0, 0>>, powers |-> <<0, 0>>, intervals |-> <<0, 0>>]

\* no second gauge
NoTwin == [k |-> 0, pos |-> WattGauge(0, 0, 0, 0, 0, 0, 0),
           neg |-> WattGauge(0, 0, 0, 0, 0, 0, 0), wprev |-> 0]

----------------------------------------------------------------------------
(* The stand-alone WattGauge *)

\* every uninitialised member holds an arbitrary value of its own
InitWG ==
    /\ now = 0
    /\ \E gt0, gt1, gt2, gp0, gp1, gp2, gl \in Garbage :
           wg = WattGauge(gt0, gt1, gt2, gp0, gp1, gp2, gl)
    /\ pos = WattGauge(0, 0, 0, 0, 0, 0, 0)
    /\ neg = WattGauge(0, 0, 0, 0, 0, 0, 0)
    /\ wprev = 0
    /\ hist = [x \in Gauges |-> NoHist]
    /\ obs = NoObs /\ twin = NoTwin /\ fault = FALSE

\* positive.set_active_energy_total(ms, val)
WGFeed ==
    /\ hist["wg"].feeds < MaxFeeds
    /\ \E d \in Deltas :
         /\ now + d <= MaxTime
         /\ \E wh \in (IF hist["wg"].feeds = 0 THEN FirstWh
                       ELSE {hist["wg"].fed + i : i \in Incs}) :
              /\ now' = now + d
              /\ wg' = set_active_energy_total(wg, now + d, wh)
              /\ hist' = [hist EXCEPT !["wg"] = FedHist(@, now + d, wh)]
    /\ UNCHANGED <<pos, neg, wprev>>
    /\ UNCHANGED aux

\* positive.reset()
WGReset ==
    /\ wg' = reset(wg)
    /\ hist' = [hist EXCEPT !["wg"] = ResetHist(@, wg)]
    /\ UNCHANGED <<now, pos, neg, wprev>>
    /\ UNCHANGED aux

NextWG == WGFeed \/ WGReset

SpecWG == InitWG /\ [][NextWG]_vars

----------------------------------------------------------------------------
(* The stand-alone WattGauge under a load that spikes after a flat period,  *)
(* as the positive direction of _test_energygauge_around_zero               *)

\* at most MaxFeedsSpike feeds are made
MaxFeedsSpike == 4

\* a feed: the time that passed and the units the counter advanced
StepsSpike ==
    {<<31000, 0>>, <<62000, 1>>, <<300001, 1>>, <<5000, 6>>, <<15101, 6>>}

\* positive.set_active_energy_total(ms, val)
SpikeFeed ==
    /\ hist["wg"].feeds < MaxFeedsSpike
    /\ \E s \in StepsSpike :
         LET time_ms == now + s[1]
             current_wh == IF hist["wg"].feeds = 0 THEN 100
                           ELSE hist["wg"].fed + s[2]
         IN  /\ now' = time_ms
             /\ wg' = set_active_energy_total(wg, time_ms, current_wh)
             /\ hist' = [hist EXCEPT
                            !["wg"] = ForcedHist(@, wg, time_ms, current_wh)]
    /\ UNCHANGED <<pos, neg, wprev>>
    /\ UNCHANGED aux

NextSpike == SpikeFeed \/ WGReset

SpecSpike == InitWG /\ [][NextSpike]_vars

----------------------------------------------------------------------------
(* The EnergyGauge *)

\* the WattGauge objects a constructor may leave: every uninitialised
\* member holds an arbitrary value of its own
Uninitialised ==
    {WattGauge(gt0, gt1, gt2, gp0, gp1, gp2, gl) :
         gt0 \in Garbage, gt1 \in Garbage, gt2 \in Garbage,
         gp0 \in Garbage, gp1 \in Garbage, gp2 \in Garbage, gl \in Garbage}

Init ==
    /\ now = 0
    /\ wg = WattGauge(0, 0, 0, 0, 0, 0, 0)
    /\ pos \in Uninitialised
    /\ neg \in Uninitialised
    /\ wprev = 0
    /\ hist = [x \in Gauges |-> NoHist]
    /\ obs = NoObs /\ twin = NoTwin /\ fault = FALSE

set_positive_active_energy_total ==
    /\ hist["pos"].feeds < MaxFeedsEG
    /\ \E d \in DeltasEG :
         /\ now + d <= MaxTime
         /\ \E wh \in (IF hist["pos"].feeds = 0 THEN FirstWh
                       ELSE {hist["pos"].fed + i : i \in IncsEG}) :
              /\ now' = now + d
              /\ pos' = set_active_energy_total(pos, now + d, wh)
              /\ hist' = [hist EXCEPT !["pos"] = FedHist(@, now + d, wh)]
    /\ UNCHANGED <<wg, neg, wprev>>
    /\ UNCHANGED aux

set_negative_active_energy_total ==
    /\ hist["neg"].feeds < MaxFeedsEG
    /\ \E d \in DeltasEG :
         /\ now + d <= MaxTime
         /\ \E wh \in (IF hist["neg"].feeds = 0 THEN FirstWh
                       ELSE {hist["neg"].fed + i : i \in IncsEG}) :
              /\ now' = now + d
              /\ neg' = set_active_energy_total(neg, now + d, wh)
              /\ hist' = [hist EXCEPT !["neg"] = FedHist(@, now + d, wh)]
    /\ UNCHANGED <<wg, pos, wprev>>
    /\ UNCHANGED aux

\* EnergyGauge::reset()
EGReset ==
    /\ wprev' = eg_get_instantaneous_power
    /\ pos' = reset(pos)
    /\ neg' = reset(neg)
    /\ hist' = [hist EXCEPT !["pos"] = ResetHist(@, pos),
                            !["neg"] = ResetHist(@, neg)]
    /\ UNCHANGED <<now, wg>>
    /\ UNCHANGED aux

Next ==
    \/ set_positive_active_energy_total
    \/ set_negative_active_energy_total
    \/ EGReset

Spec == Init /\ [][Next]_vars

----------------------------------------------------------------------------
(* The EnergyGauge and a caller that reads it *)

\* at most MaxFeedsRead feeds are made on the two directions together
MaxFeedsRead == 3

\* a feed: the time that passed and the units the counter advanced
StepsRead == {<<30000, 6>>, <<50000, 6>>, <<400000, 2>>}
InitRead ==
    /\ now = 0
    /\ wg = WattGauge(0, 0, 0, 0, 0, 0, 0)
    /\ pos \in Uninitialised
    /\ neg \in Uninitialised
    /\ wprev = 0
    /\ hist = [x \in Gauges |-> NoHist]
    /\ obs = NoObs /\ twin = NoTwin /\ fault = FALSE

FeedsRead == hist["pos"].feeds + hist["neg"].feeds

\* gauge.set_positive_active_energy_total(ms, val)
ReadFeedPositive ==
    /\ FeedsRead < MaxFeedsRead
    /\ \E s \in StepsRead :
         LET time_ms == now + s[1]
             current_wh == IF hist["pos"].feeds = 0 THEN 100
                           ELSE hist["pos"].fed + s[2]
         IN  /\ now' = time_ms
             /\ pos' = set_active_energy_total(pos, time_ms, current_wh)
             /\ hist' = [hist EXCEPT
                            !["pos"] = FedHist(@, time_ms, current_wh)]
    /\ obs' = NoObs
    /\ UNCHANGED <<wg, neg, wprev, twin, fault>>

\* gauge.set_negative_active_energy_total(ms, val)
ReadFeedNegative ==
    /\ FeedsRead < MaxFeedsRead
    /\ \E s \in StepsRead :
         LET time_ms == now + s[1]
             current_wh == IF hist["neg"].feeds = 0 THEN 100
                           ELSE hist["neg"].fed + s[2]
         IN  /\ now' = time_ms
             /\ neg' = set_active_energy_total(neg, time_ms, current_wh)
             /\ hist' = [hist EXCEPT
                            !["neg"] = FedHist(@, time_ms, current_wh)]
    /\ obs' = NoObs
    /\ UNCHANGED <<wg, pos, wprev, twin, fault>>

\* a variant that slides the two windows only together
ReadReset_joint_gate ==
    /\ wprev' = eg_get_instantaneous_power
    /\ pos' = IF there_are_enough_values(neg) THEN reset(pos) ELSE pos
    /\ neg' = IF there_are_enough_values(pos) THEN reset(neg) ELSE neg
    /\ hist' = [hist EXCEPT !["pos"] = ResetHist(@, pos),
                            !["neg"] = ResetHist(@, neg)]
    /\ obs' = NoObs
    /\ UNCHANGED <<now, wg, twin, fault>>

\* gauge.reset()
ReadReset ==
    /\ wprev' = eg_get_instantaneous_power
    /\ pos' = reset(pos)
    /\ neg' = reset(neg)
    /\ hist' = [hist EXCEPT !["pos"] = ResetHist(@, pos),
                            !["neg"] = ResetHist(@, neg)]
    /\ obs' = NoObs
    /\ UNCHANGED <<now, wg, twin, fault>>

\* what the read operations return in the current state
Reads ==
    [valid |-> TRUE,
     power |-> eg_get_instantaneous_power,
     significant |-> eg_has_significant_change,
     totals |-> <<get_positive_active_energy_total,
                  get_negative_active_energy_total>>,
     powers |-> <<get_instantaneous_power(pos),
                  get_instantaneous_power(neg)>>,
     intervals |-> <<interval_since_last_change(pos),
                     interval_since_last_change(neg)>>]

\* what the caller holds after reading: the values r just returned, whether
\* a read came before this one since the last feed or reset, and from the
\* first read of that series the members found before it and the values it
\* returned
Observed(r) ==
    [valid |-> TRUE, power |-> r.power, significant |-> r.significant,
     totals |-> r.totals, powers |-> r.powers, intervals |-> r.intervals,
     again |-> obs.valid,
     before |-> IF obs.valid THEN obs.before ELSE <<pos, neg, wprev>>,
     first |-> IF obs.valid THEN obs.first ELSE r]

\* the values the latest read returned
Returned(o) ==
    [valid |-> TRUE, power |-> o.power, significant |-> o.significant,
     totals |-> o.totals, powers |-> o.powers, intervals |-> o.intervals]

\* a variant in which asking for a significant change also records the
\* power as the reported one
ReadGauge_recording ==
    /\ obs' = Observed(Reads)
    /\ wprev' = eg_get_instantaneous_power
    /\ UNCHANGED <<now, wg, pos, neg, hist, twin, fault>>

\* gauge.get_instantaneous_power(), gauge.has_significant_change() and the
\* other read operations: they assign no member
ReadGauge ==
    /\ obs' = Observed(Reads)
    /\ UNCHANGED <<now, wg, pos, neg, wprev, hist, twin, fault>>

NextRead == ReadFeedPositive \/ ReadFeedNegative \/ ReadReset \/ ReadGauge

SpecRead == InitRead /\ [][NextRead]_vars

----------------------------------------------------------------------------
(* An EnergyGauge fed arbitrary timestamps and values, and its twin: a      *)
(* second EnergyGauge that starts from the same memory and receives the    *)
(* same calls with every timestamp shifted by twin.k (modulo 2^32).  A     *)
(* call that would divide by zero sets fault and changes nothing else.     *)

\* at most MaxFeedsWide feeds are made on the two directions together
MaxFeedsWide == 2

\* a feed: what is added (modulo 2^32) to the latest timestamp and to the
\* latest value of the direction; -10000 and -1 stand for 2^32 - 10000 and
\* 2^32 - 1, a clock and a counter that go back
StepsWide ==
    {<<0, 0>>, <<0, 6>>, <<30000, 6>>, <<40000, 0>>, <<50000, 1800>>,
     <<0 - 10000, 0 - 1>>}

\* the shift of the twin's clock: 2^32 - 20000 and 2^31 - 20001
OffsetsWide == {0 - 20000, INT_MAX - 20000}

InitWide ==
    /\ now = 0
    /\ wg = WattGauge(0, 0, 0, 0, 0, 0, 0)
    /\ pos \in Uninitialised
    /\ neg \in Uninitialised
    /\ wprev = 0
    /\ hist = [x \in Gauges |-> NoHist]
    /\ obs = NoObs
    /\ \E k \in OffsetsWide :
           twin = [k |-> k, pos |-> pos, neg |-> neg, wprev |-> 0]
    /\ fault = FALSE

\* gauge.set_positive_active_energy_total(ms, val) on both gauges
WideFeedPositive ==
    /\ ~fault
    /\ FeedsRead < MaxFeedsWide
    /\ \E s \in StepsWide :
         LET time_ms == UAdd(now, s[1])
             current_wh == IF hist["pos"].feeds = 0 THEN 100
                           ELSE UAdd(hist["pos"].fed, s[2])
             zero == 0 \in
                 (set_active_energy_total_divisors(pos, time_ms, current_wh)
                  \cup set_active_energy_total_divisors(
                            twin.pos, UAdd(time_ms, twin.k), current_wh))
         IN  /\ now' = time_ms
             /\ fault' = zero
             /\ pos' = IF zero THEN pos
                       ELSE set_active_energy_total(pos, time_ms, current_wh)
             /\ twin' = IF zero THEN twin
                        ELSE [twin EXCEPT !.pos =
                                 set_active_energy_total(
                                     @, UAdd(time_ms, twin.k), current_wh)]
             /\ hist' = [hist EXCEPT
                            !["pos"] = FedHist(@, time_ms, current_wh)]
    /\ UNCHANGED <<wg, neg, wprev, obs>>

\* gauge.set_negative_active_energy_total(ms, val) on both gauges
WideFeedNegative ==
    /\ ~fault
    /\ FeedsRead < MaxFeedsWide
    /\ \E s \in StepsWide :
         LET time_ms == UAdd(now, s[1])
             current_wh == IF hist["neg"].feeds = 0 THEN 100
                           ELSE UAdd(hist["neg"].fed, s[2])
             zero == 0 \in
                 (set_active_energy_total_divisors(neg, time_ms, current_wh)
                  \cup set_active_energy_total_divisors(
                            twin.neg, UAdd(time_ms, twin.k), current_wh))
         IN  /\ now' = time_ms
             /\ fault' = zero
             /\ neg' = IF zero THEN neg
                       ELSE set_active_energy_total(neg, time_ms, current_wh)
             /\ twin' = IF zero THEN twin
                        ELSE [twin EXCEPT !.neg =
                                 set_active_energy_total(
                                     @, UAdd(time_ms, twin.k), current_wh)]
             /\ hist' = [hist EXCEPT
                            !["neg"] = FedHist(@, time_ms, current_wh)]
    /\ UNCHANGED <<wg, pos, wprev, obs>>

\* gauge.reset() on both gauges; no division
WideReset ==
    /\ ~fault
    /\ wprev' = eg_get_instantaneous_power
    /\ pos' = reset(pos)
    /\ neg' = reset(neg)
    /\ twin' = [twin EXCEPT !.wprev = eg_power(twin.pos, twin.neg),
                            !.pos = reset(@),
                            !.neg = reset(@)]
    /\ hist' = [hist EXCEPT !["pos"] = ResetHist(@, pos),
                            !["neg"] = ResetHist(@, neg)]
    /\ UNCHANGED <<now, wg, obs, fault>>

\* gauge.has_significant_change() on both gauges; the other reads do not
\* divide
WideRead ==
    /\ ~fault
    /\ fault' = (0 \in
           (has_significant_change_divisors(eg_get_instantaneous_power, wprev)
            \cup has_significant_change_divisors(
                      eg_power(twin.pos, twin.neg), twin.wprev)))
    /\ UNCHANGED <<now, wg, pos, neg, wprev, hist, obs, twin>>

NextWide == WideFeedPositive \/ WideFeedNegative \/ WideReset \/ WideRead

SpecWide == InitWide /\ [][NextWide]_vars

----------------------------------------------------------------------------
(* Properties *)

Fed(x) == hist[x].feeds > 0
Min(a, b) == IF a < b THEN a ELSE b

\* the gate, the estimate and the interval read off the window with plain
\* integers (timestamps and counters that did not wrap)
Span(g) == g.t[2] - g.t[0]
Units(g) == g.p[2] - g.p[0]
GateHolds(g) ==
    \/ (Span(g) >= 20000 /\ Units(g) >= 6)
    \/ (Span(g) >= 50000 /\ Units(g) >= 2)
    \/ Span(g) >= 300000
\* the slots of g hold timestamps and values that did not wrap
PlainWindow(g) ==
    /\ 0 <= g.t[0] /\ g.t[0] <= g.t[1] /\ g.t[1] <= g.t[2]
    /\ 0 <= g.p[0] /\ g.p[0] <= g.p[1] /\ g.p[1] <= g.p[2]

WindowRate(g) == (Units(g) * 3600000) \div Span(g)
Silence(g) == g.tlast - g.t[2]

\* C1: on every unchanged-counter feed made more than 300 000 ms after the
\* last counter change the reported power of the WattGauge is 0.
C1_ZeroAfter300s ==
    (hist["wg"].op = "same" /\ now - hist["wg"].chg > 300000)
        => get_instantaneous_power(wg) = 0

\* C2: after at least one feed, and after any further feeds and resets, the
\* active energy total of a gauge is the value passed to its latest feed
\* (stand-alone gauge and both directions of the EnergyGauge).
C2_TotalIsLatestFed ==
    /\ Fed("wg") => get_active_energy_total(wg) = hist["wg"].fed
    /\ Fed("pos") => get_positive_active_energy_total = hist["pos"].fed
    /\ Fed("neg") => get_negative_active_energy_total = hist["neg"].fed

C2_Witness ==
    /\ Fed("pos") /\ Fed("neg")
    /\ hist["pos"].op = "slide" /\ hist["neg"].op = "slide"
    /\ hist["pos"].fed > hist["pos"].pfed
    /\ get_positive_active_energy_total = hist["pos"].fed
    /\ get_negative_active_energy_total = hist["neg"].fed

\* C3: once both directions were fed, the EnergyGauge reports the direction
\* whose counter changed more recently by fed timestamp: the positive power
\* if the positive counter's last change is the later one, the negated
\* negative power if the negative counter's last change is the later one.
C3_FresherDirectionWins ==
    (Fed("pos") /\ Fed("neg")) =>
        /\ hist["pos"].chg > hist["neg"].chg
               => eg_get_instantaneous_power = pos.watt
        /\ hist["neg"].chg > hist["pos"].chg
               => eg_get_instantaneous_power = 0 - neg.watt

\* C4: the EnergyGauge's power is the positive gauge's held power when the
\* positive interval since the last change is the smaller one, and the
\* negation of the negative gauge's held power otherwise (equal intervals
\* select the negative direction); it is never another value.
C4_ExactlyOneDirection ==
    /\ eg_get_instantaneous_power \in {pos.watt, 0 - neg.watt}
    /\ (Fed("pos") /\ Fed("neg")) =>
           eg_get_instantaneous_power =
               IF Silence(pos) < Silence(neg) THEN pos.watt ELSE 0 - neg.watt

C4_Witness ==
    /\ Fed("pos") /\ Fed("neg")
    /\ Silence(pos) = Silence(neg)
    /\ pos.watt > 0 /\ neg.watt > 0 /\ pos.watt # neg.watt
    /\ eg_get_instantaneous_power = 0 - neg.watt

\* floor(units * 3 600 000 / span) without the product: the quotient and the
\* remainder of 3 600 000 by span are multiplied separately (for
\* units * span below 2^31)
ExactRate(units, span) ==
    units * (3600000 \div span) + (units * (3600000 % span)) \div span

\* C5: on a counter-advancing feed, after the window shift and any spike
\* reset, if the gate holds on the window then the held estimate is exactly
\* floor((p2 - p0) * 3 600 000 / (t2 - t0)), slot 0 being the window start
\* left by the last reset.
C5_EstimateIsWindowRate ==
    [][/\ (WideFeedPositive /\ ~fault' /\ hist'["pos"].op = "advance"
              /\ PlainWindow(pos') /\ GateHolds(pos'))
           => pos'.watt = ExactRate(Units(pos'), Span(pos'))
       /\ (WideFeedNegative /\ ~fault' /\ hist'["neg"].op = "advance"
              /\ PlainWindow(neg') /\ GateHolds(neg'))
           => neg'.watt = ExactRate(Units(neg'), Span(neg'))]_vars

\* C6: a feed after which the gate fails, other than an unchanged-counter
\* feed more than 30 000 ms after the last change, leaves the reported power
\* at its previous value.
C6_HeldWhileGateFails ==
    [][(WGFeed /\ ~GateHolds(wg')
          /\ ~(hist'["wg"].op = "same" /\ Silence(wg') > 30000))
        => get_instantaneous_power(wg') = get_instantaneous_power(wg)]_vars

C6_Witness ==
    /\ hist["wg"].op = "advance" /\ ~GateHolds(wg)
    /\ wg.t[0] < wg.t[2]
    /\ wg.watt > 0

\* C7: a feed whose value equals slot 2's leaves the three slots untouched;
\* if time_ms - t2 > 30 000 the estimate becomes
\* min(watt, floor(3 600 000 / (time_ms - t2))), otherwise it is unchanged;
\* so it never increases on such a feed.
C7_UnchangedFeedDecays ==
    [][(WGFeed /\ wg.data_valid /\ hist'["wg"].fed = wg.p[2]) =>
          /\ wg'.t = wg.t /\ wg'.p = wg.p
          /\ wg'.watt = IF now' - wg.t[2] > 30000
                        THEN Min(wg.watt, 3600000 \div (now' - wg.t[2]))
                        ELSE wg.watt
          /\ wg'.watt <= wg.watt]_vars

C7_Witness ==
    /\ hist["wg"].op = "same"
    /\ Silence(wg) > 30000
    /\ wg.watt > 0
    /\ wg.watt = 3600000 \div Silence(wg)

\* C8: with non-decreasing timestamps and values, after the first feed and
\* any feeds and resets, t0 <= t1 <= t2 and p0 <= p1 <= p2.
C8_WindowOrdered ==
    Fed("wg") =>
        /\ wg.t[0] <= wg.t[1] /\ wg.t[1] <= wg.t[2]
        /\ wg.p[0] <= wg.p[1] /\ wg.p[1] <= wg.p[2]

C8_Witness ==
    /\ Fed("wg") /\ hist["wg"].op = "slide"
    /\ wg.t[0] < wg.t[1] /\ wg.p[0] < wg.p[1]
    /\ wg.t[1] = wg.t[2] /\ wg.p[1] = wg.p[2]

\* C9: reset() while the gate does not hold changes nothing of the gauge;
\* in every case it leaves watt, slot 2 and t_last unchanged, so the three
\* read operations return the same values before and after it.
C9_ResetFrame ==
    [][WGReset =>
          /\ ~there_are_enough_values(wg) => wg' = wg
          /\ wg'.watt = wg.watt
          /\ wg'.t[2] = wg.t[2] /\ wg'.p[2] = wg.p[2]
          /\ wg'.tlast = wg.tlast
          /\ wg'.data_valid = wg.data_valid
          /\ get_instantaneous_power(wg') = get_instantaneous_power(wg)
          /\ get_active_energy_total(wg') = get_active_energy_total(wg)
          /\ interval_since_last_change(wg')
                 = interval_since_last_change(wg)]_vars

C9_Witness ==
    /\ Fed("wg") /\ hist["wg"].op = "noop"
    /\ wg.t[0] < wg.t[1] /\ wg.t[1] < wg.t[2]
    /\ wg.watt > 0
    /\ ~GateHolds(wg)

\* C10 as stated: after a reset that slid the window, the window start is
\* the next-to-last counter change before the reset.
C10_StartIsNextToLastChange ==
    (Fed("wg") /\ hist["wg"].op = "slide") =>
        (wg.t[0] = hist["wg"].pchg /\ wg.p[0] = hist["wg"].pfed)

\* C10 amended: reset() while the gate holds moves slot 1 to slot 0 and
\* slot 2 to slot 1; the new window start is the next-to-last counter change
\* when slots 1 and 2 held different samples, and the last counter change
\* when they held the same sample.
C10_ResetSlides ==
    [][(WGReset /\ there_are_enough_values(wg)) =>
          /\ wg'.t[0] = wg.t[1] /\ wg'.p[0] = wg.p[1]
          /\ wg'.t[1] = wg.t[2] /\ wg'.p[1] = wg.p[2]
          /\ Fed("wg") =>
                IF wg.t[1] = wg.t[2] /\ wg.p[1] = wg.p[2]
                THEN wg'.t[0] = hist["wg"].chg /\ wg'.p[0] = hist["wg"].fed
                ELSE wg'.t[0] = hist["wg"].pchg /\ wg'.p[0] = hist["wg"].pfed
       ]_vars

C10_Witness ==
    /\ hist["wg"].op = "slide"
    /\ wg.t[0] = hist["wg"].pchg /\ wg.p[0] = hist["wg"].pfed
    /\ wg.t[1] = hist["wg"].chg /\ wg.p[1] = hist["wg"].fed
    /\ wg.t[0] < wg.t[1] /\ wg.p[0] < wg.p[1]
    /\ hist["wg"].pchg > 0

\* C11: while w_prev = 0, has_significant_change() returns true exactly when
\* the net power is outside the open band (-20, 20); in particular it
\* returns false while the power is 0 and for every power inside the band.
C11_IdleBand ==
    (obs.valid /\ wprev = 0) =>
        (obs.significant <=> (obs.power <= 0 - 20 \/ obs.power >= 20))

C11_Witness ==
    /\ obs.valid /\ wprev = 0
    /\ obs.power > 0 /\ obs.power < 20
    /\ ~obs.significant
    /\ hist["pos"].op = "advance"

\* C12: when w_prev # 0, has_significant_change() returns false exactly
\* when 0.6 < power / w_prev < 1.6, the ratio taken exactly and both bounds
\* strict (so a fall to exactly 60% of w_prev is significant).
C12_StrictRatioBand ==
    (obs.valid /\ wprev # 0) =>
        (~obs.significant <=>
            IF wprev > 0
            THEN 3 * wprev < 5 * obs.power /\ 5 * obs.power < 8 * wprev
            ELSE 3 * wprev > 5 * obs.power /\ 5 * obs.power > 8 * wprev)

C18_ResetCapturesPower ==
    /\ wprev = 0
    /\ [][/\ ReadReset =>
                /\ wprev' = eg_get_instantaneous_power
                /\ pos' = IF there_are_enough_values(pos)
                          THEN reset_ungated(pos) ELSE pos
                /\ neg' = IF there_are_enough_values(neg)
                          THEN reset_ungated(neg) ELSE neg
                /\ PlainWindow(pos) =>
                       (there_are_enough_values(pos) <=> GateHolds(pos))
                /\ PlainWindow(neg) =>
                       (there_are_enough_values(neg) <=> GateHolds(neg))
          /\ (ReadFeedPositive \/ ReadFeedNegative \/ ReadGauge)
                => wprev' = wprev]_vars

C18_Witness ==
    /\ hist["pos"].op = "noop" /\ hist["neg"].op = "slide"
    /\ Fed("pos") /\ Fed("neg")
    /\ wprev < 0 /\ wprev = 0 - neg.watt

\* the window as a counter-advancing feed of (time_ms, current_wh) shifts it,
\* before the forced reset and the recalculation
Shifted(g, time_ms, current_wh) ==
    shift_window([g EXCEPT !.tlast = time_ms], time_ms, current_wh)

\* the condition of the forced reset, read off the window with plain integers
SpikeHolds(g) ==
    /\ g.t[1] - g.t[0] > 60000
    /\ g.p[1] - g.p[0] <= 1
    /\ g.t[2] - g.t[1] < 15000

\* a feed step of the stand-alone gauge that advances the counter
Advance == WGFeed /\ wg.data_valid /\ hist'["wg"].fed # wg.p[2]

\* C19: a feed that advances the counter at least 300 000 ms after the
\* window start recomputes the estimate on that feed from the whole window,
\* floor((p2 - p0) * 3 600 000 / (t2 - t0)), however few units were added.
C19_RecomputedAfter300s ==
    [][(Advance /\ now' - wg.t[0] >= 300000) =>
          wg'.watt = ((hist'["wg"].fed - wg.p[0]) * 3600000)
                         \div (now' - wg.t[0])]_vars

\* C20 as stated: on a counter-advancing feed for which the shifted window
\* has t1 - t0 > 60 000, p1 - p0 <= 1 and t2 - t1 < 15 000 the window is
\* slid (slot 0 <- slot 1, slot 1 <- slot 2); on the other counter-advancing
\* feeds slot 0 is not changed.
C20_SpikeAlwaysSlides ==
    [][Advance =>
          LET sh == Shifted(wg, now', hist'["wg"].fed)
          IN  IF SpikeHolds(sh)
              THEN /\ wg'.t = Slots(sh.t[1], sh.t[2], sh.t[2])
                   /\ wg'.p = Slots(sh.p[1], sh.p[2], sh.p[2])
              ELSE wg'.t[0] = wg.t[0] /\ wg'.p[0] = wg.p[0]]_vars

\* C20 amended: on such a feed reset() is called, and as every reset() it
\* slides the window only if the gate holds on the shifted window (then the
\* estimate is recomputed on the slid window); if the gate fails, or the
\* condition does not hold, the window stays as shifted and slot 0 is not
\* changed.
C20_SpikeSlidesWhenGated ==
    [][Advance =>
          LET sh == Shifted(wg, now', hist'["wg"].fed)
          IN  IF SpikeHolds(sh) /\ GateHolds(sh)
              THEN /\ wg'.t = Slots(sh.t[1], sh.t[2], sh.t[2])
                   /\ wg'.p = Slots(sh.p[1], sh.p[2], sh.p[2])
                   /\ wg'.watt = IF GateHolds(wg') THEN WindowRate(wg')
                                 ELSE wg.watt
              ELSE /\ wg'.t = sh.t /\ wg'.p = sh.p
                   /\ wg'.t[0] = wg.t[0] /\ wg'.p[0] = wg.p[0]]_vars

\* the feed itself slid the window: after the second feed the three slots
\* hold the sample just fed
C20_Witness ==
    /\ hist["wg"].feeds = 2 /\ hist["wg"].op = "advance"
    /\ wg.t[0] = now /\ wg.t[1] = now /\ wg.t[2] = now
    /\ wg.p[0] = hist["wg"].fed /\ hist["wg"].fed = hist["wg"].pfed + 1
    /\ now > 60000

\* a feed step of the spiking load that advances the counter
AdvanceSpike == SpikeFeed /\ wg.data_valid /\ hist'["wg"].fed # wg.p[2]

\* C13: when the counter was flat for more than 60 000 ms after the window
\* start, then advanced by a single unit, and then advances again less than
\* 15 000 ms later, the forced reset moves the window start to the sample
\* of the single-unit advance (on the single-unit advance itself when the
\* flat period reached 300 000 ms, on the advance after it otherwise); and
\* on every later advance that forces no reset the window start stays and
\* the estimate, when the gate holds, is the rate over the window from that
\* start.
C13_SpikeMovesStart ==
    [][/\ (/\ AdvanceSpike
           /\ wg.p[0] = wg.p[2] /\ hist'["wg"].fed = wg.p[2] + 1
           /\ now' - wg.t[0] >= 300000)
          => (wg'.t[0] = now' /\ wg'.p[0] = hist'["wg"].fed)
       /\ (/\ AdvanceSpike
           /\ hist["wg"].fed = hist["wg"].pfed + 1
           /\ wg.p[0] = hist["wg"].pfed /\ wg.t[2] = hist["wg"].chg
           /\ hist["wg"].chg - wg.t[0] > 60000
           /\ now' - hist["wg"].chg < 15000)
          => /\ wg'.t[0] = hist["wg"].chg /\ wg'.p[0] = hist["wg"].fed
             /\ wg'.t[2] = now'
       /\ (AdvanceSpike /\ ~SpikeHolds(Shifted(wg, now', hist'["wg"].fed)))
          => /\ wg'.t[0] = wg.t[0] /\ wg'.p[0] = wg.p[0]
             /\ GateHolds(wg') => wg'.watt = WindowRate(wg')]_vars

\* 12 Wh over 20.101 s, measured from the single-unit advance, gives 2149
C13_Witness ==
    /\ hist["wg"].op = "advance" /\ hist["wg"].feeds = 4
    /\ wg.p[0] = 101 /\ wg.t[0] > 60000
    /\ wg.t[2] - wg.t[0] = 20101 /\ wg.p[2] - wg.p[0] = 12
    /\ wg.watt = 2149

\* a step that feeds gauge x (g its state after the step), advances its
\* counter and leaves a window on which the gate holds
GatedFeed(x, g) ==
    /\ hist'[x].feeds = hist[x].feeds + 1
    /\ hist'[x].op = "advance"
    /\ GateHolds(g)

\* C14: the power of a gauge is 0 from construction until the first feed on
\* which the gate holds: it is 0 after construction, and no feed or reset
\* other than a counter-advancing feed that satisfies the gate moves it away
\* from 0; the EnergyGauge reports 0 before any feed and while each
\* direction was fed at most once.
C14_ZeroUntilGate ==
    /\ pos.watt = 0 /\ neg.watt = 0
    /\ []((hist["pos"].feeds <= 1 /\ hist["neg"].feeds <= 1)
              => eg_get_instantaneous_power = 0)
    /\ [][/\ (pos.watt = 0 /\ ~GatedFeed("pos", pos')) => pos'.watt = 0
          /\ (neg.watt = 0 /\ ~GatedFeed("neg", neg')) => neg'.watt = 0]_vars

C14_Witness ==
    /\ hist["pos"].feeds = 2 /\ hist["pos"].fed > 100
    /\ hist["pos"].op = "noop"
    /\ hist["neg"].feeds = 1
    /\ pos.watt = 0 /\ eg_get_instantaneous_power = 0

\* what the twin's read operations return
twin_power == eg_power(twin.pos, twin.neg)
twin_has_significant_change == has_significant_change(twin_power, twin.wprev)

\* C15: a gauge fed the timestamps shifted by k modulo 2^32, with the same
\* counter values, returns after every operation the same power (net and of
\* each direction), the same intervals since the last change and the same
\* significant-change flag as the gauge fed the unshifted timestamps.
C15_ClockShiftTransparent ==
    /\ twin_power = eg_get_instantaneous_power
    /\ get_instantaneous_power(twin.pos) = get_instantaneous_power(pos)
    /\ get_instantaneous_power(twin.neg) = get_instantaneous_power(neg)
    /\ interval_since_last_change(twin.pos) = interval_since_last_change(pos)
    /\ interval_since_last_change(twin.neg) = interval_since_last_change(neg)
    /\ twin_has_significant_change = eg_has_significant_change

\* the shifted clock wrapped past 2^32 between the two feeds of the window
\* from which the estimate was computed
C15_Witness ==
    /\ hist["pos"].op = "advance"
    /\ pos.t[0] >= 0 /\ pos.t[0] < pos.t[2]
    /\ twin.pos.t[0] < 0 /\ twin.pos.t[0] >= 0 - 20000
    /\ twin.pos.t[2] >= 0 /\ twin.pos.t[2] < 30000
    /\ pos.watt = 720 /\ twin.pos.watt = 720
    /\ twin_power = 720

\* C16: no operation divides by zero, whatever timestamps and counter
\* values are fed: the divisor of the estimate is a window span that passed
\* the gate, the divisor of the stall decay is an interval above 30 000, and
\* the divisor of the ratio is a non-zero w_prev.
C16_NoDivisionByZero ==
    /\ ~fault
    /\ \A g \in {pos, neg, twin.pos, twin.neg} :
           g.data_valid =>
               /\ \A d \in recalculate_divisors(g) : UGeq(d, 20000)
               /\ \A d \in stall_decay_divisors(g) : ULess(30000, d)
    /\ 0 \notin has_significant_change_divisors(
                      eg_get_instantaneous_power, wprev)
    /\ 0 \notin has_significant_change_divisors(twin_power, twin.wprev)

\* a feed added 6 units with no time elapsed since the window start, and
\* the gate kept the estimate from being computed
C16_Witness ==
    /\ ~fault
    /\ hist["pos"].op = "advance"
    /\ tdelta(pos) = 0 /\ UGeq(pdelta(pos), 6)
    /\ tdelta(twin.pos) = 0 /\ twin.pos.t[0] < 0

\* C21: after the forced reset has slid the window, the estimate is
\* recomputed from the new window no later than the second
\* counter-advancing feed after the feed that forced the reset: when the
\* first such feed left a window on which the gate fails, the second leaves
\* one on which it holds and the estimate is the rate over that window.
C21_TracksWithinTwoSamples ==
    [][(AdvanceSpike /\ hist["wg"].since = 1 /\ ~GateHolds(wg))
          => (GateHolds(wg') /\ wg'.watt = WindowRate(wg'))]_vars

\* the window a counter-advancing feed of (time_ms, current_wh) is to leave
\* before the forced reset, written from the slots before the feed
ShiftedSlots(g, time_ms, current_wh) ==
    IF g.t[0] = g.t[1]
    THEN [t |-> Slots(g.t[0], time_ms, time_ms),
          p |-> Slots(g.p[0], current_wh, current_wh)]
    ELSE [t |-> Slots(g.t[0], g.t[2], time_ms),
          p |-> Slots(g.p[0], g.p[2], current_wh)]

\* C22: a counter-advancing feed leaves slot 0 as it was and, if t0 = t1
\* before the feed, puts the new sample in slot 1 and in slot 2, otherwise
\* moves slot 2 to slot 1 and puts the new sample in slot 2; slot 2 holds
\* the new (time_ms, current_wh) pair after every such feed.  (When the
\* forced reset slides the window on the same feed, the window left is
\* that shifted window slid by one slot.)
C22_WindowShift ==
    [][Advance =>
          LET sh == ShiftedSlots(wg, now', hist'["wg"].fed)
          IN  /\ wg'.t[2] = now' /\ wg'.p[2] = hist'["wg"].fed
              /\ IF SpikeHolds(sh) /\ GateHolds(sh)
                 THEN /\ wg'.t = Slots(sh.t[1], sh.t[2], sh.t[2])
                      /\ wg'.p = Slots(sh.p[1], sh.p[2], sh.p[2])
                 ELSE wg'.t = sh.t /\ wg'.p = sh.p]_vars

\* an ordinary shift after a first change: three samples in the window
C22_Witness ==
    /\ hist["wg"].op = "advance" /\ hist["wg"].feeds = 3
    /\ wg.t[0] < wg.t[1] /\ wg.t[1] < wg.t[2]
    /\ wg.p[0] < wg.p[1] /\ wg.p[1] < wg.p[2]
    /\ wg.t[1] = hist["wg"].pchg /\ wg.p[1] = hist["wg"].pfed
    /\ wg.t[2] = now /\ wg.p[2] = hist["wg"].fed

\* the window holds one sample: the three slots are equal
SingleSample(g) ==
    /\ g.t[0] = g.t[1] /\ g.t[1] = g.t[2]
    /\ g.p[0] = g.p[1] /\ g.p[1] = g.p[2]

\* the step left the window w, or w slid by the reset that w forces
LeftWindow(w) ==
    IF SpikeHolds(w) /\ GateHolds(w)
    THEN /\ wg'.t = Slots(w.t[1], w.t[2], w.t[2])
         /\ wg'.p = Slots(w.p[1], w.p[2], w.p[2])
    ELSE wg'.t = w.t /\ wg'.p = w.p

\* the step shifted the window by the first-change branch: the new sample
\* went to slot 1 and to slot 2
TookFirstShift ==
    LeftWindow([t |-> Slots(wg.t[0], now', now'),
                p |-> Slots(wg.p[0], hist'["wg"].fed, hist'["wg"].fed)])

\* the step shifted the window by the other branch: slot 2 went to slot 1
\* and the new sample to slot 2
TookOrdinaryShift ==
    LeftWindow([t |-> Slots(wg.t[0], wg.t[2], now'),
                p |-> Slots(wg.p[0], wg.p[2], hist'["wg"].fed)])

\* C23 as stated: with strictly increasing feed timestamps, a
\* counter-advancing feed takes the first-change branch exactly when it is
\* the first counter advance since construction or since the last reset
\* that slid the window.
C23_FirstShiftAfterEverySlide ==
    [][AdvanceSpike => (TookFirstShift <=> hist["wg"].adv = 0)]_vars

\* C23 amended: with strictly increasing feed timestamps, a
\* counter-advancing feed takes the first-change branch exactly when the
\* window holds a single sample, and the ordinary shift otherwise.  The
\* window holds a single sample after the first feed, and after a reset
\* that slid the window exactly when the slid window had slots 1 and 2
\* equal (it had seen one advance); after a slide of a window with two
\* distinct samples in slots 1 and 2 the first advance takes the ordinary
\* shift, as every advance that is not the first since construction or
\* since the last slide.
C23_FirstShiftOnSingleSample ==
    /\ [](hist["wg"].op = "first" => SingleSample(wg))
    /\ [][/\ AdvanceSpike =>
               /\ TookFirstShift <=> SingleSample(wg)
               /\ TookOrdinaryShift <=> ~SingleSample(wg)
               /\ hist["wg"].adv >= 1 => TookOrdinaryShift
          /\ (WGReset /\ wg.data_valid /\ GateHolds(wg)) =>
               (SingleSample(wg') <=> wg.t[1] = wg.t[2])]_vars

\* the first advance after a slide that left two samples: it took the
\* ordinary shift and the window holds three distinct samples
C23_Witness ==
    /\ hist["wg"].op = "advance" /\ hist["wg"].adv = 1
    /\ wg.t[0] < wg.t[1] /\ wg.t[1] < wg.t[2]
    /\ wg.p[0] < wg.p[1] /\ wg.p[1] < wg.p[2]
    /\ wg.t[2] = now

\* C24: with 32-bit unsigned long and int, after every counter-advancing
\* feed that leaves a window on which the gate holds, the stored estimate
\* is the exact quotient floor((p2 - p0) * 3 600 000 / (t2 - t0)), however
\* many units the window holds.
C24_ProductNeverWraps ==
    \A x \in {"pos", "neg"} :
        LET g == IF x = "pos" THEN pos ELSE neg
        IN  (hist[x].op = "advance" /\ PlainWindow(g) /\ GateHolds(g))
                => g.watt = ExactRate(Units(g), Span(g))

\* C25: the recomputation runs only at the end of a counter-advancing feed,
\* where t_last = t2; so t_last - t0 is the window span, a failing gate
\* means a span below 300 000 ms, and no feed executes the assignment
\* watt = 0 of the recomputation.
C25_ForceToZeroIsDead ==
    [][/\ WGFeed =>
            ~set_active_energy_total_forces_zero(wg, now', hist'["wg"].fed)
       /\ Advance =>
            /\ wg'.tlast = wg'.t[2]
            /\ ~GateHolds(wg') => wg'.tlast - wg'.t[0] < 300000]_vars

\* a counter advance more than 300 000 ms after the previous change left a
\* window on which the gate fails, and the estimate was not set to 0
C25_Witness ==
    /\ hist["wg"].op = "advance" /\ hist["wg"].feeds = 4
    /\ hist["wg"].chg - hist["wg"].pchg > 300000
    /\ ~GateHolds(wg) /\ wg.tlast = wg.t[2]
    /\ wg.watt > 0

\* C26: a counter-advancing feed whose shifted window satisfies the
\* condition of the forced reset leaves the held estimate as it was: the
\* gate fails on the window the feed leaves, which is shorter than
\* 15 000 ms when the reset slid it and is the shifted window, on which the
\* gate already failed, when it did not.
C26_SpikeFeedHoldsEstimate ==
    [][(Advance /\ SpikeHolds(ShiftedSlots(wg, now', hist'["wg"].fed))) =>
          LET sh == ShiftedSlots(wg, now', hist'["wg"].fed)
          IN  /\ wg'.watt = wg.watt
              /\ ~GateHolds(wg')
              /\ IF GateHolds(sh)
                 THEN wg'.t[0] = sh.t[1] /\ Span(wg') < 15000
                 ELSE wg'.t = sh.t /\ wg'.p = sh.p]_vars

\* a single-unit advance more than 60 000 ms after the window start forced
\* a reset that slid the window to the sample just fed, and the estimate
\* computed before is still held
C26_Witness ==
    /\ hist["wg"].op = "advance"
    /\ hist["wg"].fed = hist["wg"].pfed + 1
    /\ hist["wg"].chg - hist["wg"].pchg > 60000
    /\ wg.t[0] = now /\ wg.t[2] = now /\ wg.p[0] = hist["wg"].fed
    /\ wg.watt = 1080

\* the latest call on each direction was reset(): no feed came after the
\* latest EnergyGauge::reset()
JustReset ==
    /\ hist["pos"].op \in {"slide", "noop"}
    /\ hist["neg"].op \in {"slide", "noop"}

\* C27: EnergyGauge::reset() changes neither the estimate nor the interval
\* since the last change of either direction, so the power it leaves is the
\* power before it; and from the reset until the next feed of either
\* direction the power equals the captured w_prev and
\* has_significant_change() is false.
C27_QuietAfterReset ==
    /\ [](JustReset => /\ eg_get_instantaneous_power = wprev
                       /\ ~eg_has_significant_change)
    /\ [][ReadReset =>
            /\ eg_power(pos', neg') = eg_get_instantaneous_power
            /\ pos'.watt = pos.watt /\ neg'.watt = neg.watt
            /\ interval_since_last_change(pos')
                   = interval_since_last_change(pos)
            /\ interval_since_last_change(neg')
                   = interval_since_last_change(neg)]_vars

\* a reset slid the window of the selected direction, captured a power
\* outside the idle band, and the caller's reads after it returned that
\* power and no significant change
C27_Witness ==
    /\ JustReset /\ hist["pos"].op = "slide"
    /\ obs.valid /\ obs.power = 720 /\ wprev = 720
    /\ ~obs.significant

\* the direction get_instantaneous_power() selects
PositiveSelected ==
    ULess(interval_since_last_change(pos), interval_since_last_change(neg))

\* C28: the estimate held by a WattGauge is never negative, so the power of
\* the EnergyGauge is >= 0 when the positive direction is selected and <= 0
\* when the negative direction is selected; the conversions and the
\* unsigned negation keep the magnitude: the power is the estimate of the
\* positive direction, or minus the estimate of the negative one.
C28_EstimateNeverNegative ==
    /\ pos.watt >= 0 /\ neg.watt >= 0
    /\ IF PositiveSelected
       THEN eg_get_instantaneous_power = pos.watt
            /\ eg_get_instantaneous_power >= 0
       ELSE eg_get_instantaneous_power = 0 - neg.watt
            /\ eg_get_instantaneous_power <= 0

\* non-decreasing feeds left 1800 units in the window of the negative
\* direction: the 32-bit product 1800 * 3 600 000 wraps to 2 185 032 704,
\* which has its top bit set; the estimate is 43700 and the power -43700
C28_Witness ==
    /\ hist["neg"].op = "advance" /\ PlainWindow(neg)
    /\ Units(neg) = 1800 /\ Span(neg) = 50000
    /\ neg.watt = 43700
    /\ ~PositiveSelected /\ eg_get_instantaneous_power = 0 - 43700

====
